---- MODULE Spec2Model ----
(***************************************************************************)
(* Model of the aviation text normalizer: the tokenizer, the eight         *)
(* recognizers (FSMs) and the scanning driver (Parser).                    *)
(*                                                                         *)
(* A Python str is modelled as a sequence of one-character strings, a      *)
(* token list as a sequence of such sequences, and a confidence as an      *)
(* integer number of hundredths (0.95 is 95).                              *)
(***************************************************************************)
EXTENDS Integers, Sequences, FiniteSets, TLC

\* ------------------------------------------------------------------------
\* Characters and the str methods / regex classes the code relies on
\* ------------------------------------------------------------------------
LowerSeq == <<"a","b","c","d","e","f","g","h","i","j","k","l","m",
              "n","o","p","q","r","s","t","u","v","w","x","y","z">>
UpperSeq == <<"A","B","C","D","E","F","G","H","I","J","K","L","M",
              "N","O","P","Q","R","S","T","U","V","W","X","Y","Z">>
DigitSeq == <<"0","1","2","3","4","5","6","7","8","9">>

Lower == {LowerSeq[k] : k \in 1..26}
Upper == {UpperSeq[k] : k \in 1..26}
Digit == {DigitSeq[k] : k \in 1..10}

\* \s of the regular expressions and of str.strip(); the model's texts use
\* the blank and the tab
Space == {" ", "\t"}

EN_DASH == "<en-dash>"
EM_DASH == "<em-dash>"

LowerMap == [c \in Upper |-> LowerSeq[CHOOSE k \in 1..26 : UpperSeq[k] = c]]
UpperMap == [c \in Lower |-> UpperSeq[CHOOSE k \in 1..26 : LowerSeq[k] = c]]

Alpha == Lower \cup Upper
IsAlpha(c) == c \in Alpha
IsDigit(c) == c \in Digit
\* a character of which str.isdigit() is true, \d and [0-9] do not match
\* and int() raises ValueError, as U+00B2 (superscript two)
SUPERSCRIPT_TWO == "<superscript-two>"
\* ch.isdigit()
IsPyDigit(c) == c \in Digit \/ c = SUPERSCRIPT_TWO
IsSpace(c) == c \in Space
\* \w : letters, digits, the underscore and whatever str.isalnum() accepts
IsWord(c) == IsAlpha(c) \/ IsPyDigit(c) \/ c = "_"

lower(s) == [k \in 1..Len(s) |-> IF s[k] \in Upper THEN LowerMap[s[k]] ELSE s[k]]
upper(s) == [k \in 1..Len(s) |-> IF s[k] \in Lower THEN UpperMap[s[k]] ELSE s[k]]

\* str.isdigit(): non-empty and every character a digit
isdigit(s) == Len(s) > 0 /\ \A k \in 1..Len(s) : IsPyDigit(s[k])
\* re.fullmatch(r"[A-Za-z]+", s)
IsAlphaStr(s) == Len(s) > 0 /\ \A k \in 1..Len(s) : IsAlpha(s[k])

SP == <<" ">>

\* sep.join(parts) for a list of strings
\* a join that leaves the separator out
join_no_separator(sep, parts) ==
    LET Cat[k \in 0..Len(parts)] == IF k = 0 THEN <<>> ELSE Cat[k - 1] \o parts[k]
    IN  Cat[Len(parts)]

RECURSIVE join(_, _)
join(sep, parts) ==
    IF Len(parts) = 0 THEN <<>>
    ELSE IF Len(parts) = 1 THEN parts[1]
    ELSE parts[1] \o sep \o join(sep, Tail(parts))

\* "".join(parts)
RECURSIVE concat(_)
concat(parts) == IF Len(parts) = 0 THEN <<>> ELSE parts[1] \o concat(Tail(parts))

\* needle in hay, for two strings
Contains(hay, needle) ==
    \E p \in 0..(Len(hay) - Len(needle)) :
        \A k \in 1..Len(needle) : hay[p + k] = needle[k]

\* seq[a:b] with Python's slice rules (negative bounds count from the end,
\* bounds are clamped to the list)
PyBound(n, a) == IF a < 0 THEN (IF a + n < 0 THEN 0 ELSE a + n)
                 ELSE (IF a > n THEN n ELSE a)
PySlice(seq, a, b) ==
    LET lo == PyBound(Len(seq), a)
        hi == PyBound(Len(seq), b)
    IN  IF hi <= lo THEN <<>> ELSE [k \in 1..(hi - lo) |-> seq[lo + k]]

\* seq[a] with Python's index rules: a in [-len, len) is a position of the
\* list, anything else raises IndexError
PyInRange(seq, a) == -Len(seq) <= a /\ a < Len(seq)
PyAt(seq, a) == IF a < 0 THEN seq[Len(seq) + a + 1] ELSE seq[a + 1]

\* ------------------------------------------------------------------------
\* Words of the lookup tables and of the rendered forms
\* ------------------------------------------------------------------------
s_zero == <<"z", "e", "r", "o">>
s_one == <<"o", "n", "e">>
s_three == <<"t", "h", "r", "e", "e">>
s_four == <<"f", "o", "u", "r">>
s_five == <<"f", "i", "v", "e">>
s_six == <<"s", "i", "x">>
s_seven == <<"s", "e", "v", "e", "n">>
s_eight == <<"e", "i", "g", "h", "t">>
s_nine == <<"n", "i", "n", "e">>
s_decimal == <<"d", "e", "c", "i", "m", "a", "l">>
s_china == <<"c", "h", "i", "n", "a">>
s_qnh == <<"q", "n", "h">>
s_runway == <<"r", "u", "n", "w", "a", "y">>
s_taxiway == <<"t", "a", "x", "i", "w", "a", "y">>
s_heading == <<"h", "e", "a", "d", "i", "n", "g">>
s_left == <<"l", "e", "f", "t">>
s_ft == <<"f", "t">>
s_feet == <<"f", "e", "e", "t">>
s_kt == <<"k", "t">>
s_knots == <<"k", "n", "o", "t", "s">>
s_deg == <<"d", "e", "g">>
s_degrees == <<"d", "e", "g", "r", "e", "e", "s">>
s_FL == <<"F", "L">>
s_RWY == <<"R", "W", "Y">>
s_CSN == <<"C", "S", "N">>

\* ------------------------------------------------------------------------
\* data/dictionary.py
\* ------------------------------------------------------------------------
\* dict keys carry their Python type, so that a str never equals an int key
PyInt(n) == <<"int", n>>
PyStr(s) == <<"str", s>>

\* d.get(key, default)
DictGet(d, key, default) == IF key \in DOMAIN d THEN d[key] ELSE default

ICAO_ALPHABET ==
    (<<"a", "l", "p", "h", "a">> :> "A") @@ (<<"b", "r", "a", "v", "o">> :> "B") @@ (<<"c", "h", "a", "r", "l", "i", "e">> :> "C") @@
    (<<"d", "e", "l", "t", "a">> :> "D") @@ (<<"e", "c", "h", "o">> :> "E") @@ (<<"f", "o", "x", "t", "r", "o", "t">> :> "F") @@
    (<<"g", "o", "l", "f">> :> "G") @@ (<<"h", "o", "t", "e", "l">> :> "H") @@ (<<"i", "n", "d", "i", "a">> :> "I") @@
    (<<"j", "u", "l", "i", "e", "t", "t">> :> "J") @@ (<<"k", "i", "l", "o">> :> "K") @@ (<<"l", "i", "m", "a">> :> "L") @@
    (<<"m", "i", "k", "e">> :> "M") @@ (<<"n", "o", "v", "e", "m", "b", "e", "r">> :> "N") @@ (<<"o", "s", "c", "a", "r">> :> "O") @@
    (<<"p", "a", "p", "a">> :> "P") @@ (<<"q", "u", "e", "b", "e", "c">> :> "Q") @@ (<<"r", "o", "m", "e", "o">> :> "R") @@
    (<<"s", "i", "e", "r", "r", "a">> :> "S") @@ (<<"t", "a", "n", "g", "o">> :> "T") @@ (<<"u", "n", "i", "f", "o", "r", "m">> :> "U") @@
    (<<"v", "i", "c", "t", "o", "r">> :> "V") @@ (<<"w", "h", "i", "s", "k", "e", "y">> :> "W") @@ (<<"x", "r", "a", "y">> :> "X") @@
    (<<"x", "-", "r", "a", "y">> :> "X") @@ (<<"y", "a", "n", "k", "e", "e">> :> "Y") @@ (<<"z", "u", "l", "u">> :> "Z")

\* {v: k for k, v in ICAO_ALPHABET.items()}: of two words with the same
\* letter the later one stays, so "X" maps to "x-ray"
ICAO_REVERSE ==
    [c \in {ICAO_ALPHABET[w] : w \in DOMAIN ICAO_ALPHABET} |->
        IF c = "X" THEN <<"x", "-", "r", "a", "y">>
        ELSE CHOOSE w \in DOMAIN ICAO_ALPHABET : ICAO_ALPHABET[w] = c]

NUMBER_WORDS ==
    (s_zero :> 0) @@ (<<"o", "h">> :> 0) @@ (s_one :> 1) @@ (<<"t", "w", "o">> :> 2) @@
    (s_three :> 3) @@ (<<"t", "r", "e", "e">> :> 3) @@ (s_four :> 4) @@ (s_five :> 5) @@
    (<<"f", "i", "f", "e">> :> 5) @@ (s_six :> 6) @@ (s_seven :> 7) @@ (s_eight :> 8) @@
    (<<"a", "i", "t">> :> 8) @@ (s_nine :> 9) @@ (<<"n", "i", "n", "e", "r">> :> 9)

NUMBER_REVERSE ==
    (PyInt(0) :> s_zero) @@ (PyInt(1) :> s_one) @@ (PyInt(2) :> <<"t", "w", "o">>) @@
    (PyInt(3) :> s_three) @@ (PyInt(4) :> s_four) @@ (PyInt(5) :> s_five) @@
    (PyInt(6) :> s_six) @@ (PyInt(7) :> s_seven) @@ (PyInt(8) :> s_eight) @@
    (PyInt(9) :> s_nine)

DECIMAL_WORDS == {s_decimal, <<"p", "o", "i", "n", "t">>, <<"d", "o", "t">>}

AIRLINE_ICAO ==
    (s_CSN :> s_china \o SP \o <<"s", "o", "u", "t", "h", "e", "r", "n">>) @@
    (<<"C", "C", "A">> :> <<"a", "i", "r">> \o SP \o s_china) @@
    (<<"C", "E", "S">> :> s_china \o SP \o <<"e", "a", "s", "t", "e", "r", "n">>)
\* insertion order of AIRLINE_ICAO, which the callsign matcher iterates
AIRLINE_ORDER == <<s_CSN, <<"C", "C", "A">>, <<"C", "E", "S">>>>

\* ------------------------------------------------------------------------
\* utils/number_utils.py
\* ------------------------------------------------------------------------
\* the absent value of Optional[str]
None == "None"

\* int(ch) and str(n) for one digit
IntOfDigit(c) == (CHOOSE k \in 1..10 : DigitSeq[k] = c) - 1
StrOfDigit(n) == DigitSeq[n + 1]

token_to_digit(token) ==
    LET t == lower(token)
    IN  IF isdigit(t) /\ Len(t) = 1 THEN t[1]
        ELSE IF t \in DOMAIN NUMBER_WORDS THEN StrOfDigit(NUMBER_WORDS[t])
        ELSE None

\* int(ch) raises ValueError for some ch of digits that ch.isdigit() lets
\* through: digits_to_spoken(digits), and num_str_to_spoken(digits), raise
int_raises(digits) ==
    \E k \in 1..Len(digits) : IsPyDigit(digits[k]) /\ ~IsDigit(digits[k])

\* defined for the strings int_raises is false of
digits_to_spoken(digits) ==
    LET only == SelectSeq(digits, IsPyDigit)
    IN  IF Len(only) = 0 THEN <<>>
        ELSE join(SP, [k \in 1..Len(only) |-> NUMBER_REVERSE[PyInt(IntOfDigit(only[k]))]])

\* position of the first "." of a string, 0 when there is none
DotPos(num) == IF \E k \in 1..Len(num) : num[k] = "."
               THEN CHOOSE k \in 1..Len(num) :
                        num[k] = "." /\ \A m \in 1..(k - 1) : num[m] # "."
               ELSE 0

\* a conversion that gives nothing for a number with a decimal point
num_str_to_spoken_integers_only(num) ==
    IF DotPos(num) > 0 THEN <<>> ELSE digits_to_spoken(num)

num_str_to_spoken(num) ==
    IF DotPos(num) > 0
    THEN digits_to_spoken(SubSeq(num, 1, DotPos(num) - 1))
         \o SP \o s_decimal \o SP
         \o digits_to_spoken(SubSeq(num, DotPos(num) + 1, Len(num)))
    ELSE digits_to_spoken(num)

\* ------------------------------------------------------------------------
\* core/tokenizer.py
\* ------------------------------------------------------------------------
\* str.lstrip(), str.rstrip(), str.strip()
lstrip(s) ==
    IF \A k \in 1..Len(s) : IsSpace(s[k]) THEN <<>>
    ELSE SubSeq(s, CHOOSE k \in 1..Len(s) :
                       ~IsSpace(s[k]) /\ \A m \in 1..(k - 1) : IsSpace(s[m]),
                Len(s))
rstrip(s) ==
    IF \A k \in 1..Len(s) : IsSpace(s[k]) THEN <<>>
    ELSE SubSeq(s, 1, CHOOSE k \in 1..Len(s) :
                          ~IsSpace(s[k]) /\ \A m \in (k + 1)..Len(s) : IsSpace(s[m]))
strip(s) == rstrip(lstrip(s))

\* the class [,\;:\(\)\[\]\{\}]
SEPARATORS == {",", ";", ":", "(", ")", "[", "]", "{", "}"}

\* re.sub(r"\s+", " ", s): each run of whitespace becomes one blank
collapse(s) ==
    LET marked == [k \in 1..Len(s) |->
                      IF ~IsSpace(s[k]) THEN <<s[k]>>
                      ELSE IF k > 1 /\ IsSpace(s[k - 1]) THEN <<>>
                      ELSE SP]
        Kept(m) == m # <<>>
        kept == SelectSeq(marked, Kept)
    IN  [k \in 1..Len(kept) |-> kept[k][1]]

normalize(text) ==
    LET s1 == strip(text)
        s2 == [k \in 1..Len(s1) |-> IF s1[k] \in SEPARATORS THEN " " ELSE s1[k]]
        s3 == [k \in 1..Len(s2) |-> IF s2[k] \in {EN_DASH, EM_DASH} THEN "-" ELSE s2[k]]
    IN  strip(collapse(s3))

\* the character class a character belongs to: [A-Za-z], \d, \s, or the
\* class [^\sA-Za-z\d] of everything else
CharClass(c) == IF IsAlpha(c) THEN "alpha"
                ELSE IF IsDigit(c) THEN "digit"
                ELSE IF IsSpace(c) THEN "space"
                ELSE "symbol"

\* length of the longest run of characters of class cls starting at s[p]
RECURSIVE RunLen(_, _, _)
RunLen(s, p, cls) ==
    IF p <= Len(s) /\ CharClass(s[p]) = cls THEN 1 + RunLen(s, p + 1, cls) ELSE 0

\* length of the match of _TOKEN_RE at position p, 0 when it does not match
\* there: [A-Za-z]+ | \d+(?:\.\d+)? | [^\sA-Za-z\d]+, first alternative first
TokenLenAt(s, p) ==
    IF RunLen(s, p, "alpha") > 0 THEN RunLen(s, p, "alpha")
    ELSE IF RunLen(s, p, "digit") > 0
         THEN LET n == RunLen(s, p, "digit")
                  m == IF p + n <= Len(s) /\ s[p + n] = "."
                       THEN RunLen(s, p + n + 1, "digit") ELSE 0
              IN  IF m > 0 THEN n + 1 + m ELSE n
    ELSE RunLen(s, p, "symbol")

\* _TOKEN_RE.findall(text), scanning from position p
RECURSIVE findall(_, _)
findall(s, p) ==
    IF p > Len(s) THEN <<>>
    ELSE IF TokenLenAt(s, p) = 0 THEN findall(s, p + 1)
    ELSE <<SubSeq(s, p, p + TokenLenAt(s, p) - 1)>>
         \o findall(s, p + TokenLenAt(s, p))

\* re.fullmatch(r"[^\w\.]+", t): a token of punctuation only
IsPunctToken(t) == Len(t) > 0 /\ \A k \in 1..Len(t) : ~IsWord(t[k]) /\ t[k] # "."

tokenize(text) ==
    LET raw_tokens == findall(text, 1)
        lowered == [k \in 1..Len(raw_tokens) |->
                       IF IsAlphaStr(raw_tokens[k]) THEN lower(raw_tokens[k])
                       ELSE raw_tokens[k]]
        Keep(t) == ~IsPunctToken(t)
    IN  SelectSeq(lowered, Keep)

\* ------------------------------------------------------------------------
\* core/entity.py, core/match.py
\* ------------------------------------------------------------------------
AviationEntity(type, raw, code, spoken, confidence) ==
    [type |-> type, raw |-> raw, code |-> code, spoken |-> spoken,
     confidence |-> confidence]

\* a result whose confidence is a fixed 1.0 whatever the entity carries
MatchResult_full_confidence(entity, step, confidence) ==
    [tag |-> "match", entity |-> entity, step |-> step, confidence |-> 100]

\* a result that reports one token more than the matcher consumed
MatchResult_step_off_by_one(entity, step, confidence) ==
    [tag |-> "match", entity |-> entity, step |-> step + 1,
     confidence |-> confidence]

MatchResult(entity, step, confidence) ==
    [tag |-> "match", entity |-> entity, step |-> step, confidence |-> confidence]

\* what a call of match can produce besides a MatchResult: None, or an
\* exception leaving the call
NoMatch == [tag |-> "none"]
Raised == [tag |-> "raise"]

RenderModes == {"CODE", "SPOKEN"}

\* render that gives the spoken form in either mode
render_spoken_only(entity, mode) == entity.spoken

\* render that ignores the mode
render_code_only(entity, mode) == entity.code

render(entity, mode) == IF mode = "SPOKEN" THEN entity.spoken ELSE entity.code

\* ------------------------------------------------------------------------
\* helpers shared by the recognizers
\* ------------------------------------------------------------------------
\* str.split(): the whitespace-separated words of a string
RECURSIVE split(_)
split(s) ==
    LET t == lstrip(s)
        n == IF Len(t) = 0 THEN 0
             ELSE CHOOSE m \in 1..Len(t) :
                      /\ \A k \in 1..m : ~IsSpace(t[k])
                      /\ (m = Len(t) \/ IsSpace(t[m + 1]))
    IN  IF Len(t) = 0 THEN <<>>
        ELSE <<SubSeq(t, 1, n)>> \o split(SubSeq(t, n + 1, Len(t)))

\* str.zfill(width) for a string of digits
RECURSIVE zfill(_, _)
zfill(s, width) == IF Len(s) >= width THEN s ELSE zfill(<<"0">> \o s, width)

\* str.replace(" ", "")
RemoveBlanks(s) == LET NotBlank(c) == c # " " IN SelectSeq(s, NotBlank)

\* the loop
\*     while j < len(tokens) [and len(digs) < limit]:
\*         d = token_to_digit(tokens[j]); if d is None: break
\*         digs.append(d); j += 1
\* as the list it collects; limit -1 stands for a loop without a length test
RECURSIVE CollectDigits(_, _, _)
CollectDigits(tokens, j, limit) ==
    IF j < Len(tokens) /\ limit # 0 /\ token_to_digit(PyAt(tokens, j)) # None
    THEN <<token_to_digit(PyAt(tokens, j))>>
         \o CollectDigits(tokens, j + 1, IF limit > 0 THEN limit - 1 ELSE limit)
    ELSE <<>>

\* every character of s[a..b] is a digit
AllDigits(s, a, b) == \A k \in a..b : IsDigit(s[k])

\* ------------------------------------------------------------------------
\* fsms/callsign.py
\* ------------------------------------------------------------------------
\* _ICAO_CODE_RE = ^[A-Z]{3}$
ICAO_CODE_RE(t) == Len(t) = 3 /\ \A k \in 1..3 : t[k] \in Upper

\* _ICAO_MIX_RE = ^([A-Z]{3})\s*([0-9]{1,5})$ : three capitals, optional
\* whitespace, one to five digits up to the end; the start of group 2, or 0
IcaoMixDigitsAt(t) ==
    IF Len(t) >= 4 /\ \A k \in 1..3 : t[k] \in Upper
    THEN LET p == 4 + RunLen(t, 4, "space")
         IN  IF p <= Len(t) /\ Len(t) - p + 1 <= 5 /\ AllDigits(t, p, Len(t))
             THEN p ELSE 0
    ELSE 0

\* " ".join(NUMBER_REVERSE.get(ch, ch) for ch in digits): ch is a str and
\* the keys of NUMBER_REVERSE are ints
SpokenDigitsOfCallsign(digits) ==
    join(SP, [k \in 1..Len(digits) |->
                 DictGet(NUMBER_REVERSE, PyStr(<<digits[k]>>), <<digits[k]>>)])

\* the digit-collecting loop of the separated form: a token of digits is
\* taken whole, any other token through token_to_digit
RECURSIVE CallsignCollect(_, _)
CallsignCollect(tokens, j) ==
    IF j < Len(tokens)
    THEN LET tok == PyAt(tokens, j)
         IN  IF isdigit(tok) THEN <<tok>> \o CallsignCollect(tokens, j + 1)
             ELSE IF token_to_digit(tok) # None
                  THEN <<<<token_to_digit(tok)>>>> \o CallsignCollect(tokens, j + 1)
                  ELSE <<>>
    ELSE <<>>

\* the loop over AIRLINE_ICAO.items(), from the k-th airline on
RECURSIVE CallsignByName(_, _, _)
CallsignByName(tokens, index, k) ==
    IF k > Len(AIRLINE_ORDER) THEN NoMatch
    ELSE LET icao == AIRLINE_ORDER[k]
             name == AIRLINE_ICAO[icao]
             nt == split(name)
             j0 == index + Len(nt)
             digits == CollectDigits(tokens, j0, -1)
             j == j0 + Len(digits)
         IN  IF PySlice(tokens, index, index + Len(nt)) # nt
             THEN CallsignByName(tokens, index, k + 1)
             ELSE IF Len(digits) > 0
                  THEN MatchResult(
                           AviationEntity("CALLSIGN",
                               join(SP, PySlice(tokens, index, j)),
                               icao \o digits,
                               name \o SP \o SpokenDigitsOfCallsign(digits),
                               85),
                           j - index, 85)
                  ELSE CallsignByName(tokens, index, k + 1)

CallsignSeparated(tokens, index) ==
    LET t0u == upper(PyAt(tokens, index))
        digits == CallsignCollect(tokens, index + 1)
        j == index + 1 + Len(digits)
        dstr == concat(digits)
        name == DictGet(AIRLINE_ICAO, t0u, t0u)
    IN  IF ICAO_CODE_RE(t0u) /\ Len(digits) > 0
        THEN MatchResult(
                 AviationEntity("CALLSIGN",
                     join(SP, PySlice(tokens, index, j)),
                     t0u \o dstr,
                     name \o SP \o SpokenDigitsOfCallsign(dstr),
                     90),
                 j - index, 90)
        ELSE CallsignByName(tokens, index, 1)

CallsignFSM(tokens, index) ==
    IF index >= Len(tokens) THEN NoMatch
    ELSE IF ~PyInRange(tokens, index) THEN Raised
    ELSE LET t0 == PyAt(tokens, index)
             t0u == upper(t0)
             g2 == IcaoMixDigitsAt(t0u)
             icao == SubSeq(t0u, 1, 3)
             digits == SubSeq(t0u, g2, Len(t0u))
             name == DictGet(AIRLINE_ICAO, icao, icao)
         IN  IF g2 > 0
             THEN MatchResult(
                      AviationEntity("CALLSIGN", t0, icao \o digits,
                          name \o SP \o SpokenDigitsOfCallsign(digits), 100),
                      1, 100)
             ELSE CallsignSeparated(tokens, index)

\* ------------------------------------------------------------------------
\* fsms/flight_level.py
\* ------------------------------------------------------------------------
\* _FL_RE = ^FL\s*([0-9]{2,3})$ with re.IGNORECASE: the start of group 1, or 0
FlDigitsAt(t) ==
    IF Len(t) >= 4 /\ t[1] \in {"F", "f"} /\ t[2] \in {"L", "l"}
    THEN LET p == 3 + RunLen(t, 3, "space")
         IN  IF p <= Len(t) /\ Len(t) - p + 1 \in {2, 3} /\ AllDigits(t, p, Len(t))
             THEN p ELSE 0
    ELSE 0

\* the loop collecting the number words and single digits after
\* "flight level", as the list of the lowercased tokens it keeps
RECURSIVE FlCollect(_, _)
FlCollect(tokens, j) ==
    IF j < Len(tokens)
    THEN LET w == lower(PyAt(tokens, j))
         IN  IF w \in DOMAIN NUMBER_WORDS \/ (isdigit(w) /\ Len(w) = 1)
             THEN <<w>> \o FlCollect(tokens, j + 1)
             ELSE <<>>
    ELSE <<>>

NORM_WORDS ==
    (<<"t", "r", "e", "e">> :> s_three) @@ (<<"f", "i", "f", "e">> :> s_five) @@ (<<"n", "i", "n", "e", "r">> :> s_nine) @@
    (<<"a", "i", "t">> :> s_eight) @@ (<<"o", "h">> :> s_zero)

norm_word(x) == IF isdigit(x) THEN digits_to_spoken(x) ELSE DictGet(NORM_WORDS, x, x)

s_flight_level == <<"f", "l", "i", "g", "h", "t">> \o SP \o <<"l", "e", "v", "e", "l">>

FlightLevelSpoken(tokens, index) ==
    LET nums == FlCollect(tokens, index + 2)
        j == index + 2 + Len(nums)
        digits == [k \in 1..Len(nums) |->
                      IF isdigit(nums[k]) THEN nums[k]
                      ELSE <<StrOfDigit(NUMBER_WORDS[nums[k]])>>]
        fl == concat(digits)
    IN  IF PySlice(tokens, index, index + 2) = <<<<"f", "l", "i", "g", "h", "t">>, <<"l", "e", "v", "e", "l">>>> /\ Len(nums) >= 2
        THEN IF int_raises(concat(nums)) THEN Raised ELSE
             MatchResult(
                 AviationEntity("FLIGHT_LEVEL",
                     join(SP, PySlice(tokens, index, j)),
                     s_FL \o fl,
                     s_flight_level \o SP
                         \o join(SP, [k \in 1..Len(nums) |-> norm_word(nums[k])]),
                     90),
                 j - index, 90)
        ELSE NoMatch

FlightLevelFSM(tokens, index) ==
    IF index >= Len(tokens) THEN NoMatch
    ELSE IF ~PyInRange(tokens, index) THEN Raised
    ELSE LET tok == PyAt(tokens, index)
             compact == RemoveBlanks(tok)
             g1 == FlDigitsAt(compact)
         IN  IF g1 > 0
             THEN LET fl == SubSeq(compact, g1, Len(compact))
                  IN  MatchResult(
                          AviationEntity("FLIGHT_LEVEL", tok, s_FL \o fl,
                              s_flight_level \o SP \o digits_to_spoken(fl), 100),
                          1, 100)
             ELSE IF /\ lower(tok) = <<"f", "l">>
                     /\ index + 1 < Len(tokens)
                     /\ isdigit(PyAt(tokens, index + 1))
                  THEN LET fl == PyAt(tokens, index + 1)
                       IN  IF int_raises(fl) THEN Raised ELSE
                           MatchResult(
                               AviationEntity("FLIGHT_LEVEL",
                                   join(SP, PySlice(tokens, index, index + 2)),
                                   s_FL \o fl,
                                   s_flight_level \o SP \o digits_to_spoken(fl), 90),
                               2, 90)
                  ELSE FlightLevelSpoken(tokens, index)

\* ------------------------------------------------------------------------
\* fsms/runway.py
\* ------------------------------------------------------------------------
\* a prefix table with an entry of another construct in it
RW_PREFIX_with_hdg == {s_runway, <<"r", "w", "y">>, <<"h", "d", "g">>}

RW_PREFIX == {s_runway, <<"r", "w", "y">>}

\* _RW_CODE_RE = ^\d{2}([LRC])?$
RW_CODE_RE(t) ==
    /\ Len(t) \in {2, 3}
    /\ AllDigits(t, 1, 2)
    /\ (Len(t) = 3 => t[3] \in {"L", "R", "C"})

\* _RW_TIGHT_RE = ^\d{2}[LRC]$
RW_TIGHT_RE(t) == Len(t) = 3 /\ AllDigits(t, 1, 2) /\ t[3] \in {"L", "R", "C"}

DIR_WORD_TO_CODE == (s_left :> "L") @@ (<<"r", "i", "g", "h", "t">> :> "R") @@ (<<"c", "e", "n", "t", "e", "r">> :> "C")
DIR_CODE_TO_WORD == ("L" :> s_left) @@ ("R" :> <<"r", "i", "g", "h", "t">>) @@ ("C" :> <<"c", "e", "n", "t", "e", "r">>)

match_after_prefix(tokens, index) ==
    IF index + 1 >= Len(tokens) THEN NoMatch
    ELSE LET t1 == upper(PyAt(tokens, index + 1))
         IN  IF RW_CODE_RE(t1)
             THEN LET num == SubSeq(t1, 1, 2)
                      side == IF Len(t1) = 3 THEN <<t1[3]>> ELSE <<>>
                      spoken == s_runway \o SP \o digits_to_spoken(num)
                  IN  MatchResult(
                          AviationEntity("RUNWAY",
                              join(SP, PySlice(tokens, index, index + 2)),
                              s_RWY \o SP \o num \o side,
                              IF Len(side) > 0
                              THEN spoken \o SP \o DIR_CODE_TO_WORD[side[1]]
                              ELSE spoken,
                              95),
                          2, 95)
             ELSE LET d1 == token_to_digit(PyAt(tokens, index + 1))
                      d2 == IF index + 2 < Len(tokens)
                            THEN token_to_digit(PyAt(tokens, index + 2)) ELSE None
                      j0 == index + 3
                      hasSide == /\ j0 < Len(tokens)
                                 /\ lower(PyAt(tokens, j0)) \in DOMAIN DIR_WORD_TO_CODE
                      side == IF hasSide
                              THEN <<DIR_WORD_TO_CODE[lower(PyAt(tokens, j0))]>>
                              ELSE <<>>
                      j == IF hasSide THEN j0 + 1 ELSE j0
                      num == <<d1, d2>>
                      spoken == s_runway \o SP \o digits_to_spoken(num)
                  IN  IF d1 # None /\ d2 # None
                      THEN IF int_raises(num) THEN Raised ELSE
                           MatchResult(
                               AviationEntity("RUNWAY",
                                   join(SP, PySlice(tokens, index, j)),
                                   s_RWY \o SP \o num \o side,
                                   IF Len(side) > 0
                                   THEN spoken \o SP \o DIR_CODE_TO_WORD[side[1]]
                                   ELSE spoken,
                                   90),
                               j - index, 90)
                      ELSE NoMatch

RunwayFSM(tokens, index) ==
    IF index >= Len(tokens) THEN NoMatch
    ELSE IF ~PyInRange(tokens, index) THEN Raised
    ELSE IF lower(PyAt(tokens, index)) \in RW_PREFIX
         THEN match_after_prefix(tokens, index)
         ELSE LET t == upper(PyAt(tokens, index))
              IN  IF RW_TIGHT_RE(t)
                  THEN LET num == SubSeq(t, 1, 2)
                           side == t[3]
                       IN  MatchResult(
                               AviationEntity("RUNWAY", PyAt(tokens, index),
                                   s_RWY \o SP \o num \o <<side>>,
                                   s_runway \o SP \o digits_to_spoken(num)
                                       \o SP \o DIR_CODE_TO_WORD[side],
                                   75),
                               1, 75)
                  ELSE NoMatch

\* ------------------------------------------------------------------------
\* fsms/taxiway.py
\* ------------------------------------------------------------------------
\* a prefix table that lets a taxiway code stand for the prefix
TW_PREFIX_with_code ==
    {s_taxiway, <<"t", "w", "y">>, <<"t", "w">>, <<"m", "6">>}

TW_PREFIX == {s_taxiway, <<"t", "w", "y">>, <<"t", "w">>}

\* _TW_CODE_RE = ^[A-Z](\d{1,2})?$
TW_CODE_RE(t) == Len(t) \in 1..3 /\ t[1] \in Upper /\ AllDigits(t, 2, Len(t))

TaxiwayFSM(tokens, index) ==
    IF index >= Len(tokens) THEN NoMatch
    ELSE IF ~PyInRange(tokens, index) THEN Raised
    ELSE IF ~(lower(PyAt(tokens, index)) \in TW_PREFIX /\ index + 1 < Len(tokens))
         THEN NoMatch
    ELSE LET start == index + 1
             t == upper(PyAt(tokens, start))
             w0 == lower(PyAt(tokens, start))
         IN  IF TW_CODE_RE(t)
             THEN LET letter == t[1]
                      digits == SubSeq(t, 2, Len(t))
                      spoken == s_taxiway \o SP \o DictGet(ICAO_REVERSE, letter, <<letter>>)
                  IN  MatchResult(
                          AviationEntity("TAXIWAY",
                              join(SP, PySlice(tokens, index, start + 1)),
                              <<"T", "W", "Y">> \o SP \o <<letter>> \o digits,
                              IF Len(digits) > 0
                              THEN spoken \o SP \o digits_to_spoken(digits)
                              ELSE spoken,
                              90),
                          start - index + 1, 90)
             ELSE IF w0 \in DOMAIN ICAO_ALPHABET
             THEN LET letter == ICAO_ALPHABET[w0]
                      digs == CollectDigits(tokens, start + 1, 2)
                      j == start + 1 + Len(digs)
                      spoken == s_taxiway \o SP \o w0
                  IN  IF int_raises(digs) THEN Raised ELSE
                      MatchResult(
                          AviationEntity("TAXIWAY",
                              join(SP, PySlice(tokens, index, j)),
                              <<"T", "W", "Y">> \o SP \o <<letter>> \o digs,
                              IF Len(digs) > 0
                              THEN spoken \o SP \o digits_to_spoken(digs)
                              ELSE spoken,
                              90),
                          j - index, 90)
             ELSE NoMatch

\* ------------------------------------------------------------------------
\* fsms/heading.py
\* ------------------------------------------------------------------------
HDR_PREFIX == {s_heading, <<"h", "d", "g">>}

\* _HDG_RE = ^\d{1,3}$
HDG_RE(t) == Len(t) \in 1..3 /\ AllDigits(t, 1, Len(t))

HeadingFSM(tokens, index) ==
    IF index >= Len(tokens) THEN NoMatch
    ELSE IF ~PyInRange(tokens, index) THEN Raised
    ELSE IF lower(PyAt(tokens, index)) \notin HDR_PREFIX THEN NoMatch
    ELSE IF index + 1 < Len(tokens) /\ HDG_RE(PyAt(tokens, index + 1))
         THEN LET deg == zfill(PyAt(tokens, index + 1), 3)
              IN  MatchResult(
                      AviationEntity("HEADING",
                          join(SP, PySlice(tokens, index, index + 2)),
                          <<"H", "D", "G">> \o SP \o deg,
                          s_heading \o SP \o digits_to_spoken(deg),
                          95),
                      2, 95)
         ELSE LET digits == CollectDigits(tokens, index + 1, 3)
                  j == index + 1 + Len(digits)
                  deg == zfill(digits, 3)
              IN  IF Len(digits) >= 2
                  THEN IF int_raises(deg) THEN Raised ELSE
                       MatchResult(
                           AviationEntity("HEADING",
                               join(SP, PySlice(tokens, index, j)),
                               <<"H", "D", "G">> \o SP \o deg,
                               s_heading \o SP \o digits_to_spoken(deg),
                               90),
                           j - index, 90)
                  ELSE NoMatch

\* ------------------------------------------------------------------------
\* fsms/frequency.py
\* ------------------------------------------------------------------------
\* _FREQ_RE = ^\d{3}\.\d{1,3}$
FREQ_RE(t) ==
    /\ Len(t) \in 5..7
    /\ AllDigits(t, 1, 3)
    /\ t[4] = "."
    /\ AllDigits(t, 5, Len(t))

FREQ_PREFIX == {<<"f", "r", "e", "q">>, <<"f", "r", "e", "q", "u", "e", "n", "c", "y">>, <<"c", "o", "n", "t", "a", "c", "t">>, <<"o", "n">>}

FrequencyFSM(tokens, index) ==
    IF index >= Len(tokens) THEN NoMatch
    ELSE IF ~PyInRange(tokens, index) THEN Raised
    ELSE LET start == IF lower(PyAt(tokens, index)) \in FREQ_PREFIX
                         /\ index + 1 < Len(tokens)
                      THEN index + 1 ELSE index
             tok == PyAt(tokens, start)
             major == CollectDigits(tokens, start, 4)
             j1 == start + Len(major)
             minor == CollectDigits(tokens, j1 + 1, 3)
             j == j1 + 1 + Len(minor)
             code == major \o <<".">> \o minor
         IN  IF FREQ_RE(tok)
             THEN MatchResult(
                      AviationEntity("FREQUENCY",
                          join(SP, PySlice(tokens, index, start + 1)),
                          tok, num_str_to_spoken(tok), 95),
                      start - index + 1, 95)
             ELSE IF /\ Len(major) >= 2
                     /\ j1 < Len(tokens)
                     /\ lower(PyAt(tokens, j1)) \in DECIMAL_WORDS
                     /\ Len(minor) > 0
                  THEN IF int_raises(code) THEN Raised ELSE
                       MatchResult(
                           AviationEntity("FREQUENCY",
                               join(SP, PySlice(tokens, index, j)),
                               code, num_str_to_spoken(code), 90),
                           j - index, 90)
                  ELSE NoMatch

\* ------------------------------------------------------------------------
\* fsms/qnh.py
\* ------------------------------------------------------------------------
\* a pressure pattern of three digits
QNH_RE_three_digits(t) == Len(t) = 3 /\ AllDigits(t, 1, 3)

\* _QNH_RE = ^\d{4}$
QNH_RE(t) == Len(t) = 4 /\ AllDigits(t, 1, 4)

QNHFSM(tokens, index) ==
    IF index >= Len(tokens) THEN NoMatch
    ELSE IF ~PyInRange(tokens, index) THEN Raised
    ELSE IF lower(PyAt(tokens, index)) # s_qnh THEN NoMatch
    ELSE IF index + 1 < Len(tokens) /\ QNH_RE(PyAt(tokens, index + 1))
         THEN LET v == PyAt(tokens, index + 1)
              IN  MatchResult(
                      AviationEntity("QNH",
                          join(SP, PySlice(tokens, index, index + 2)),
                          <<"Q", "N", "H">> \o SP \o v,
                          s_qnh \o SP \o digits_to_spoken(v),
                          95),
                      2, 95)
         ELSE LET digs == CollectDigits(tokens, index + 1, 4)
                  j == index + 1 + Len(digs)
              IN  IF Len(digs) = 4
                  THEN IF int_raises(digs) THEN Raised ELSE
                       MatchResult(
                           AviationEntity("QNH",
                               join(SP, PySlice(tokens, index, j)),
                               <<"Q", "N", "H">> \o SP \o digs,
                               s_qnh \o SP \o digits_to_spoken(digs),
                               90),
                           j - index, 90)
                  ELSE NoMatch

\* ------------------------------------------------------------------------
\* fsms/value.py
\* ------------------------------------------------------------------------
\* _NUM_RE = ^\d+(\.\d+)?$
NUM_RE(t) ==
    LET n == RunLen(t, 1, "digit")
    IN  /\ n > 0
        /\ \/ n = Len(t)
           \/ /\ n + 2 <= Len(t)
              /\ t[n + 1] = "."
              /\ AllDigits(t, n + 2, Len(t))

UNIT ==
    (s_ft :> <<s_ft, s_feet>>) @@ (s_feet :> <<s_ft, s_feet>>) @@
    (<<"f", "o", "o", "t">> :> <<s_ft, s_feet>>) @@
    (s_kt :> <<s_kt, s_knots>>) @@ (<<"k", "t", "s">> :> <<s_kt, s_knots>>) @@
    (<<"k", "n", "o", "t">> :> <<s_kt, s_knots>>) @@ (s_knots :> <<s_kt, s_knots>>) @@
    (s_deg :> <<s_deg, s_degrees>>) @@ (<<"d", "e", "g", "r", "e", "e">> :> <<s_deg, s_degrees>>) @@
    (s_degrees :> <<s_deg, s_degrees>>)

ValueFSM(tokens, index) ==
    IF index >= Len(tokens) THEN NoMatch
    ELSE IF ~PyInRange(tokens, index) THEN Raised
    ELSE IF /\ index + 1 < Len(tokens)
            /\ NUM_RE(PyAt(tokens, index))
            /\ lower(PyAt(tokens, index + 1)) \in DOMAIN UNIT
         THEN LET num == PyAt(tokens, index)
                  u == UNIT[lower(PyAt(tokens, index + 1))]
              IN  MatchResult(
                      AviationEntity("VALUE",
                          join(SP, PySlice(tokens, index, index + 2)),
                          num \o SP \o u[1],
                          num_str_to_spoken(num) \o SP \o u[2],
                          90),
                      2, 90)
    ELSE LET major == CollectDigits(tokens, index, 6)
             j1 == index + Len(major)
             hasDec == j1 < Len(tokens) /\ lower(PyAt(tokens, j1)) \in DECIMAL_WORDS
             frac == IF hasDec THEN CollectDigits(tokens, j1 + 1, 6) ELSE <<>>
             j2 == IF hasDec THEN j1 + 1 + Len(frac) ELSE j1
             hasUnit == j2 < Len(tokens) /\ lower(PyAt(tokens, j2)) \in DOMAIN UNIT
             u == UNIT[lower(PyAt(tokens, j2))]
             num == IF Len(frac) > 0 THEN major \o <<".">> \o frac ELSE major
         IN  IF Len(major) = 0 THEN NoMatch
             ELSE IF hasUnit
                  THEN IF int_raises(num) THEN Raised ELSE
                       MatchResult(
                           AviationEntity("VALUE",
                               join(SP, PySlice(tokens, index, j2 + 1)),
                               num \o SP \o u[1],
                               num_str_to_spoken(num) \o SP \o u[2],
                               85),
                           j2 + 1 - index, 85)
                  ELSE NoMatch

\* ------------------------------------------------------------------------
\* fsms/__init__.py and the matchers a caller may supply
\* ------------------------------------------------------------------------
Fsm(kind) == [kind |-> kind]

DEFAULT_FSMS ==
    <<Fsm("CallsignFSM"), Fsm("FlightLevelFSM"), Fsm("RunwayFSM"),
      Fsm("TaxiwayFSM"), Fsm("HeadingFSM"), Fsm("FrequencyFSM"),
      Fsm("QNHFSM"), Fsm("ValueFSM")>>

\* a caller-supplied matcher (the FSM protocol of fsms/base.py): it raises
\* at the index faultAt and produces the same outcome at every other index;
\* its entity is tagged with its id
StubEntity(id, confidence) ==
    AviationEntity("STUB", <<>>, <<"M", StrOfDigit(id)>>, <<"m", StrOfDigit(id)>>,
                   confidence)

StubFsm(id, outcome, faultAt) ==
    [kind |-> "Stub", id |-> id, outcome |-> outcome, faultAt |-> faultAt]

StubMatch(fsm, tokens, index) ==
    IF index = fsm.faultAt THEN Raised
    ELSE IF fsm.outcome.tag = "match"
         THEN MatchResult(StubEntity(fsm.id, fsm.outcome.confidence),
                          fsm.outcome.step, fsm.outcome.confidence)
         ELSE NoMatch

\* fsm.match(tokens, index)
match(fsm, tokens, index) ==
    CASE fsm.kind = "CallsignFSM" -> CallsignFSM(tokens, index)
      [] fsm.kind = "FlightLevelFSM" -> FlightLevelFSM(tokens, index)
      [] fsm.kind = "RunwayFSM" -> RunwayFSM(tokens, index)
      [] fsm.kind = "TaxiwayFSM" -> TaxiwayFSM(tokens, index)
      [] fsm.kind = "HeadingFSM" -> HeadingFSM(tokens, index)
      [] fsm.kind = "FrequencyFSM" -> FrequencyFSM(tokens, index)
      [] fsm.kind = "QNHFSM" -> QNHFSM(tokens, index)
      [] fsm.kind = "ValueFSM" -> ValueFSM(tokens, index)
      [] fsm.kind = "Stub" -> StubMatch(fsm, tokens, index)

\* ------------------------------------------------------------------------
\* core/parser.py
\* ------------------------------------------------------------------------
\* what fsm.match(tokens, index) produces for each matcher of the list
calls(matchers, tokens, index) ==
    [k \in 1..Len(matchers) |-> match(matchers[k], tokens, index)]

\* a call whose exception is not caught
Guarded_uncaught(res) == res

\* try: res = fsm.match(tokens, index)  except Exception: res = None
Guarded(res) == IF res.tag = "raise" THEN NoMatch ELSE res

\* a comparison that looks at the confidence before the step
Better_confidence_first(res, best) ==
    \/ res.confidence > best.confidence
    \/ res.confidence = best.confidence /\ res.step > best.step

\* a comparison that lets a later equal match replace the kept one
Better_or_equal(res, best) ==
    \/ res.step > best.step
    \/ res.step = best.step /\ res.confidence >= best.confidence

\* (res.step, res.confidence) > (best.step, best.confidence)
Better(res, best) ==
    \/ res.step > best.step
    \/ res.step = best.step /\ res.confidence > best.confidence

\* the for loop of _best_match from the k-th matcher on, over what the
\* guarded calls produced; an exception that leaves a call leaves the loop
RECURSIVE BestFrom(_, _, _)
BestFrom(produced, k, best) ==
    IF k > Len(produced) THEN best
    ELSE LET res == produced[k]
         IN  IF res.tag = "raise" THEN Raised
             ELSE IF res.tag = "none" THEN BestFrom(produced, k + 1, best)
             ELSE IF best.tag = "none" \/ Better(res, best)
                  THEN BestFrom(produced, k + 1, res)
                  ELSE BestFrom(produced, k + 1, best)

\* _best_match, given what the calls of the matchers produce
best_of(produced) ==
    BestFrom([k \in 1..Len(produced) |-> Guarded(produced[k])], 1, NoMatch)

best_match(matchers, tokens, index) == best_of(calls(matchers, tokens, index))

\* an advance by the step as reported, without the floor of 1
Max_no_floor(a, b) == b

Max(a, b) == IF a >= b THEN a ELSE b

\* while i < len(tokens)
\* a loop that runs one index too far
LoopCond_inclusive(tokens, i) == i <= Len(tokens)

LoopCond(tokens, i) == i < Len(tokens)

\* raw text fragments the model's input texts are made of
Fragments == {
    <<"q", "n", "h">>,
    <<"1", "0", "1", "3">>,
    <<"o", "n", "e", " ", "z", "e", "r", "o">>,
    <<"C", "S", "N", "6", "8", "8", "9">>,
    <<"c", "h", "i", "n", "a", " ", "s", "o", "u", "t", "h", "e", "r", "n">>,
    <<"s", "i", "x">>,
    <<"F", "L", "3", "3", "0">>,
    <<"f", "l">>,
    <<"r", "u", "n", "w", "a", "y">>,
    <<"3", "4", "L">>,
    <<"3", "4">>,
    <<"t", "a", "x", "i", "w", "a", "y">>,
    <<"m", "i", "k", "e">>,
    <<"M", "6">>,
    <<"h", "d", "g">>,
    <<"2", "7", "0">>,
    <<"c", "o", "n", "t", "a", "c", "t">>,
    <<"1", "1", "8", ".", "7", "5">>,
    <<"d", "e", "c", "i", "m", "a", "l">>,
    <<"f", "t">>,
    <<"@", "@", " ", ",">>
}
SCENARIO_FULL ==
    <<"C","S","N","6","8","8","9"," ","c","l","i","m","b"," ","t","o"," ","F","L","3","3","0"," ","t","u","r","n"," ","r","i","g","h","t"," ","h","e","a","d","i","n","g"," ","2","7","0"," ","c","o","n","t","a","c","t"," ","1","1","8",".","7","5"," ","Q","N","H"," ","1","0","1","3">>
SCENARIO_SPOKEN ==
    <<"c","h","i","n","a"," ","s","o","u","t","h","e","r","n"," ","s","i","x"," ","e","i","g","h","t"," ","e","i","g","h","t"," ","n","i","n","e"," ","c","l","i","m","b"," ","t","o"," ","f","l","i","g","h","t"," ","l","e","v","e","l"," ","t","h","r","e","e"," ","t","h","r","e","e"," ","z","e","r","o"," ","c","o","n","t","a","c","t"," ","o","n","e"," ","o","n","e"," ","e","i","g","h","t"," ","d","e","c","i","m","a","l"," ","s","e","v","e","n"," ","f","i","v","e">>
SCENARIO_TAXI ==
    <<"t","a","x","i"," ","v","i","a"," ","m","i","k","e"," ","s","i","x"," ","t","o"," ","r","u","n","w","a","y"," ","3","4","L">>
SCENARIO_QNH ==
    <<"q","n","h"," ","o","n","e"," ","z","e","r","o"," ","o","n","e"," ","t","h","r","e","e"," ","m","a","i","n","t","a","i","n"," ","f","l"," ","3","5","0">>
SCENARIO_NOISE ==
    <<"#","#","#"," ","@","@"," ","C","S","N","6","8","8","9"," ","?","?","?"," ","c","l","i","m","b","-","-","-","t","o"," ","F","L","3","3","0"," ","!","!"," ","c","o","n","t","a","c","t"," ","o","n","e"," ","o","n","e"," ","e","i","g","h","t"," ","p","o","i","n","t"," ","s","e","v","e","n"," ","f","i","v","e"," ","Q","N","H"," ","n","i","n","e","r"," ","n","i","n","e","r"," ","n","i","n","e","r">>
SCENARIO_MODE ==
    <<"c","o","n","t","a","c","t"," ","1","1","8",".","7","5">>

\* ------------------------------------------------------------------------
\* Parser.parse as a function: the pieces the scan emits from cursor i on
\* ------------------------------------------------------------------------
RECURSIVE ScanFrom(_, _, _, _)
ScanFrom(matchers, tokens, i, mode) ==
    IF ~LoopCond(tokens, i) THEN <<>>
    ELSE LET b == best_match(matchers, tokens, i)
         IN  IF b.tag = "match"
             THEN <<render(b.entity, mode)>>
                  \o ScanFrom(matchers, tokens, i + Max(1, b.step), mode)
             ELSE <<PyAt(tokens, i)>> \o ScanFrom(matchers, tokens, i + 1, mode)

parse(matchers, text, mode) ==
    join(SP, ScanFrom(matchers, tokenize(normalize(text)), 0, mode))

\* ------------------------------------------------------------------------
\* State
\* ------------------------------------------------------------------------
VARIABLES
    text,       \* the argument of parse
    mode,       \* the RenderMode argument
    fsms,       \* Parser.fsms, or the one matcher of a direct match call
    tokens,     \* the token list
    i,          \* the cursor of parse, or the index of a direct match call
    out,        \* the list of emitted pieces
    result,     \* the returned string
    pc,         \* "start", "scan", "done", "raised"; "call", "ret" for a direct call
    results,    \* what each matcher's match call produced in the last round
    picks       \* per loop iteration: the cursor and what _best_match returned

vars == <<text, mode, fsms, tokens, i, out, result, pc, results, picks>>

\* ------------------------------------------------------------------------
\* Bounds and inputs
\* ------------------------------------------------------------------------
\* number of fragments in a generated text
MaxFrags == 2

RECURSIVE TextsOf(_)
TextsOf(n) ==
    IF n = 0 THEN {<<>>}
    ELSE LET shorter == TextsOf(n - 1)
         IN  shorter \cup {IF Len(t) = 0 THEN f ELSE t \o SP \o f :
                              t \in shorter, f \in Fragments}

\* phrases of the recognizers' unit tests, as texts
PHRASE_RUNWAY ==
    <<"r","u","n","w","a","y"," ","t","h","r","e","e"," ","f","o","u","r"," ","l","e","f","t">>
PHRASE_TAXIWAY ==
    <<"t","a","x","i","w","a","y"," ","m","i","k","e"," ","s","i","x">>

Scenarios == {SCENARIO_FULL, SCENARIO_SPOKEN, SCENARIO_TAXI, SCENARIO_QNH,
              SCENARIO_NOISE, SCENARIO_MODE, PHRASE_RUNWAY, PHRASE_TAXIWAY}

Texts == TextsOf(MaxFrags) \cup Scenarios

\* ------------------------------------------------------------------------
\* Parser.parse, step by step
\* ------------------------------------------------------------------------
Init ==
    /\ text \in Texts
    /\ mode \in RenderModes
    /\ fsms = DEFAULT_FSMS
    /\ tokens = <<>>
    /\ i = 0
    /\ out = <<>>
    /\ result = <<>>
    /\ pc = "start"
    /\ results = <<>>
    /\ picks = <<>>

\* normalized = self.tokenizer.normalize(text); tokens = tokenize(normalized)
Tokenize ==
    /\ pc = "start"
    /\ tokens' = tokenize(normalize(text))
    /\ i' = 0
    /\ out' = <<>>
    /\ pc' = "scan"
    /\ UNCHANGED <<text, mode, fsms, result, results, picks>>

\* one iteration of the while loop
Iterate ==
    /\ pc = "scan"
    /\ LoopCond(tokens, i)
    /\ LET produced == calls(fsms, tokens, i)
           b == best_of(produced)
       IN  /\ results' = produced
           /\ picks' = Append(picks, [at |-> i, best |-> b])
           /\ CASE b.tag = "match" ->
                     /\ out' = Append(out, render(b.entity, mode))
                     /\ i' = i + Max(1, b.step)
                     /\ pc' = "scan"
                [] b.tag = "none" /\ PyInRange(tokens, i) ->
                     /\ out' = Append(out, PyAt(tokens, i))
                     /\ i' = i + 1
                     /\ pc' = "scan"
                [] OTHER ->
                     \* an exception leaves parse
                     /\ pc' = "raised"
                     /\ UNCHANGED <<out, i>>
    /\ UNCHANGED <<text, mode, fsms, tokens, result>>

\* return " ".join(out)
Return ==
    /\ pc = "scan"
    /\ ~LoopCond(tokens, i)
    /\ result' = join(SP, out)
    /\ pc' = "done"
    /\ UNCHANGED <<text, mode, fsms, tokens, i, out, results, picks>>

Next == Tokenize \/ Iterate \/ Return

Spec == Init /\ [][Next]_vars

\* ------------------------------------------------------------------------
\* Parser.parse over caller-supplied matchers
\* ------------------------------------------------------------------------
\* number of matchers in a caller-supplied list
MaxStubs == 2
\* largest step a caller-supplied matcher reports; the smallest is -1
MaxStubStep == 2

StubConfidences == {80, 90}

StubOutcomes ==
    {NoMatch}
    \cup {[tag |-> "match", step |-> s, confidence |-> c] :
             s \in -1..MaxStubStep, c \in StubConfidences}

\* the index a stub raises at; -1 for a stub that never raises
StubFaults == -1..2

Stubs(id) == {StubFsm(id, o, f) : o \in StubOutcomes, f \in StubFaults}

DriverTexts == {<<"a", " ", "b", " ", "c">>}

InitDriver ==
    /\ text \in DriverTexts
    /\ mode \in RenderModes
    /\ \E n \in 1..MaxStubs :
           \E choice \in [1..n -> Stubs(0)] :
               fsms = [k \in 1..n |-> StubFsm(k, choice[k].outcome, choice[k].faultAt)]
    /\ tokens = <<>>
    /\ i = 0
    /\ out = <<>>
    /\ result = <<>>
    /\ pc = "start"
    /\ results = <<>>
    /\ picks = <<>>

SpecDriver == InitDriver /\ [][Next]_vars

\* the matcher lists of the termination check: each matcher returns no
\* match or a match of any step, and raises at index 1 or nowhere
InitLoop ==
    /\ InitDriver
    /\ \A k \in 1..Len(fsms) :
           /\ fsms[k].faultAt \in {-1, 1}
           /\ fsms[k].outcome.tag = "match" => fsms[k].outcome.confidence = 90

\* parse is one sequential call: once the loop is entered, an iteration
\* that can run does run, and so does the return after the loop
SpecDriverFair ==
    InitLoop /\ [][Next]_vars /\ WF_vars(Iterate) /\ WF_vars(Return)

\* ------------------------------------------------------------------------
\* A direct call of one default matcher, as a custom driver may make it
\* ------------------------------------------------------------------------
\* number of tokens in a generated token list
MaxMatchTokens == 2

MatchVocab == {
    s_qnh, <<"1", "0", "1", "3">>, s_one, <<"7">>,
    <<"C", "S", "N", "6", "8", "8", "9">>, s_CSN,
    <<"f", "l", "3", "3", "0">>, <<"f", "l">>, <<"3", "3", "0">>,
    s_runway, <<"3", "4", "L">>, <<"3", "4">>,
    s_taxiway, <<"M", "6">>,
    s_heading, <<"1", "1", "8", ".", "7", "5">>, s_ft,
    <<SUPERSCRIPT_TWO>>
}

RECURSIVE TokenListsOf(_)
TokenListsOf(n) ==
    IF n = 0 THEN {<<>>}
    ELSE LET shorter == TokenListsOf(n - 1)
         IN  shorter \cup {Append(t, w) : t \in shorter, w \in MatchVocab}

\* token lists of phrases longer than the generated ones
PhraseTokens == {
    <<s_qnh, s_one, s_zero, s_one, s_three>>,
    <<s_runway, s_three, s_four, s_left>>,
    <<s_china, <<"s", "o", "u", "t", "h", "e", "r", "n">>, s_six, s_eight, s_eight, s_nine>>,
    <<<<"f", "l", "i", "g", "h", "t">>, <<"l", "e", "v", "e", "l">>, s_three, s_three, s_zero>>,
    <<s_taxiway, <<"m", "i", "k", "e">>, s_six>>,
    <<s_heading, <<"t", "w", "o">>, s_seven, s_zero>>,
    <<<<"c", "o", "n", "t", "a", "c", "t">>, s_one, s_one, s_eight, s_decimal, s_seven, s_five>>,
    <<s_five, s_decimal, s_five, s_feet>>,
    <<s_qnh, s_one, s_zero, s_one>>,
    <<s_qnh, s_one, s_zero, s_one, s_three, s_five>>,
    <<<<"m", "i", "k", "e">>, s_six>>,
    <<s_heading, <<"2">>, <<"7">>, <<"0">>>>,
    <<s_five, s_decimal, s_feet>>
}

MatchTokenLists == TokenListsOf(MaxMatchTokens) \cup PhraseTokens

\* how far outside the token list a generated index may lie
IndexMargin == 2

InitMatch ==
    /\ tokens \in MatchTokenLists
    /\ i \in -(Len(tokens) + IndexMargin)..(Len(tokens) + IndexMargin)
    /\ fsms \in {<<DEFAULT_FSMS[k]>> : k \in 1..Len(DEFAULT_FSMS)}
    /\ text = <<>>
    /\ mode = "CODE"
    /\ out = <<>>
    /\ result = <<>>
    /\ pc = "call"
    /\ results = <<>>
    /\ picks = <<>>

\* a call during which the matcher removes the tokens it recognised
MatchCall_consuming ==
    /\ pc = "call"
    /\ results' = calls(fsms, tokens, i)
    /\ tokens' = IF calls(fsms, tokens, i)[1].tag = "match"
                 THEN SubSeq(tokens, 1, Max(0, i))
                 ELSE tokens
    /\ pc' = "ret"
    /\ UNCHANGED <<text, mode, fsms, i, out, result, picks>>

\* res = fsm.match(tokens, index)
MatchCall ==
    /\ pc = "call"
    /\ results' = calls(fsms, tokens, i)
    /\ pc' = "ret"
    /\ UNCHANGED <<text, mode, fsms, tokens, i, out, result, picks>>

NextMatch == MatchCall

SpecMatch == InitMatch /\ [][NextMatch]_vars

\* ------------------------------------------------------------------------
\* Two parse calls on one Parser, interleaved between matcher invocations.
\* The Parser, its tokenizer, the matchers and the lookup tables are the
\* same for both calls; text, mode, tokens, i, out and the result belong
\* to a call and are indexed by it.
\* ------------------------------------------------------------------------
Calls == {1, 2}

\* locals kept on the shared Parser instead of in the call's frame
Frame_shared(c) == 1

\* the frame that holds the locals tokens, out and i of call c
Frame(c) == c

PairTexts == {SCENARIO_MODE, PHRASE_RUNWAY, PHRASE_TAXIWAY, SCENARIO_QNH,
              <<"@", "@", " ", ",">>}

InitPair ==
    /\ text \in [Calls -> PairTexts]
    /\ mode \in [Calls -> RenderModes]
    /\ fsms = DEFAULT_FSMS
    /\ tokens = [c \in Calls |-> <<>>]
    /\ i = [c \in Calls |-> 0]
    /\ out = [c \in Calls |-> <<>>]
    /\ result = [c \in Calls |-> <<>>]
    /\ pc = [c \in Calls |-> "start"]
    /\ results = [c \in Calls |-> <<>>]
    /\ picks = [c \in Calls |-> <<>>]

\* tokens = self.tokenizer.tokenize(normalized); out = []; i = 0
ParTokenize(c) ==
    /\ pc[c] = "start"
    /\ tokens' = [tokens EXCEPT ![Frame(c)] = tokenize(normalize(text[c]))]
    /\ i' = [i EXCEPT ![Frame(c)] = 0]
    /\ out' = [out EXCEPT ![Frame(c)] = <<>>]
    /\ pc' = [pc EXCEPT ![c] = "scan"]
    /\ UNCHANGED <<text, mode, fsms, result, results, picks>>

\* one turn of  for fsm in self.fsms: res = fsm.match(tokens, index)
ParMatch(c) ==
    /\ pc[c] = "scan"
    /\ LoopCond(tokens[Frame(c)], i[Frame(c)])
    /\ Len(results[c]) < Len(fsms)
    /\ results' = [results EXCEPT ![c] =
                      Append(@, match(fsms[Len(@) + 1], tokens[Frame(c)],
                                      i[Frame(c)]))]
    /\ UNCHANGED <<text, mode, fsms, tokens, i, out, result, pc, picks>>

\* the rest of the loop body, after the last matcher returned
ParSelect(c) ==
    /\ pc[c] = "scan"
    /\ LoopCond(tokens[Frame(c)], i[Frame(c)])
    /\ Len(results[c]) = Len(fsms)
    /\ LET b == best_of(results[c])
           f == Frame(c)
       IN  /\ picks' = [picks EXCEPT ![c] = Append(@, [at |-> i[f], best |-> b])]
           /\ IF b.tag = "match"
              THEN /\ out' = [out EXCEPT ![f] = Append(@, render(b.entity, mode[c]))]
                   /\ i' = [i EXCEPT ![f] = @ + Max(1, b.step)]
              ELSE /\ out' = [out EXCEPT ![f] = Append(@, PyAt(tokens[f], i[f]))]
                   /\ i' = [i EXCEPT ![f] = @ + 1]
    /\ results' = [results EXCEPT ![c] = <<>>]
    /\ UNCHANGED <<text, mode, fsms, tokens, result, pc>>

\* return " ".join(out)
ParReturn(c) ==
    /\ pc[c] = "scan"
    /\ ~LoopCond(tokens[Frame(c)], i[Frame(c)])
    /\ result' = [result EXCEPT ![c] = join(SP, out[Frame(c)])]
    /\ pc' = [pc EXCEPT ![c] = "done"]
    /\ UNCHANGED <<text, mode, fsms, tokens, i, out, results, picks>>

NextPair ==
    \E c \in Calls : ParTokenize(c) \/ ParMatch(c) \/ ParSelect(c) \/ ParReturn(c)

SpecPair == InitPair /\ [][NextPair]_vars
\* ------------------------------------------------------------------------
\* Properties
\* ------------------------------------------------------------------------
\* a Python str: a sequence of characters
IsStr(s) == DOMAIN s = 1..Len(s) /\ \A k \in 1..Len(s) : s[k] \in STRING

\* the last loop iteration of the running parse
LastPick == picks[Len(picks)]

\* the positions of the matcher list whose call returned a MatchResult in
\* the last round
Matched == {k \in 1..Len(results) : results[k].tag = "match"}

\* C1: parse never lets an exception escape, and what it returns is a
\* string, for every text (the empty one, pure symbols and text that is
\* empty after normalization included) and both modes.
C1_ParseTotal ==
    /\ pc # "raised"
    /\ pc = "done" => IsStr(result)

\* a text of symbols only, empty after tokenization, parsed to the end
C1_Witness ==
    /\ pc = "done"
    /\ Len(text) > 0
    /\ Len(normalize(text)) > 0
    /\ tokens = <<>>
    /\ result = <<>>

\* C2: a matcher that raises at an index counts as "no match" there: no
\* exception leaves parse, and the selection is made among the matches of
\* the other matchers, whether they come earlier or later in the list.
C2_FaultIsNoMatch ==
    /\ pc # "raised"
    /\ (pc \in {"scan", "done"} /\ Len(picks) > 0
            /\ \E k \in 1..Len(results) : results[k].tag = "raise")
       => /\ Matched = {} => LastPick.best = NoMatch
          /\ Matched # {} => \E k \in Matched : LastPick.best = results[k]

\* the first matcher raised, the second matched and its match was selected
C2_Witness ==
    /\ pc = "scan"
    /\ Len(results) = 2
    /\ results[1].tag = "raise"
    /\ results[2].tag = "match"
    /\ LastPick.best = results[2]
    /\ Len(out) > 0

\* C3: the selected match maximizes (step, confidence) lexicographically
\* among the matches the matchers returned at the index.
C3_LexMax ==
    (pc \in {"scan", "done"} /\ Len(picks) > 0 /\ Matched # {})
    => /\ LastPick.best.tag = "match"
       /\ \A k \in Matched :
              \/ results[k].step < LastPick.best.step
              \/ /\ results[k].step = LastPick.best.step
                 /\ results[k].confidence <= LastPick.best.confidence

\* a longer match of lower confidence was preferred to a shorter one of
\* higher confidence
C3_Witness ==
    /\ pc = "scan"
    /\ Len(results) = 2
    /\ Matched = {1, 2}
    /\ results[1].step < results[2].step
    /\ results[1].confidence > results[2].confidence
    /\ LastPick.best = results[2]

\* C4: among matches of exactly equal (step, confidence) the one of the
\* matcher that comes first in the list is kept; the default list is in the
\* order Callsign, FlightLevel, Runway, Taxiway, Heading, Frequency, QNH,
\* Value.
C4_FirstOfEquals ==
    /\ [k \in 1..Len(DEFAULT_FSMS) |-> DEFAULT_FSMS[k].kind]
          = <<"CallsignFSM", "FlightLevelFSM", "RunwayFSM", "TaxiwayFSM",
              "HeadingFSM", "FrequencyFSM", "QNHFSM", "ValueFSM">>
    /\ (pc \in {"scan", "done"} /\ Len(picks) > 0 /\ Matched # {})
       => LET b == LastPick.best
              ties == {k \in Matched : /\ results[k].step = b.step
                                       /\ results[k].confidence = b.confidence}
          IN  \E k \in ties : /\ b = results[k]
                               /\ \A m \in ties : k <= m

\* two matchers returned equal (step, confidence) and the first one's match
\* was kept
C4_Witness ==
    /\ pc = "scan"
    /\ Len(results) = 2
    /\ Matched = {1, 2}
    /\ results[1].step = results[2].step
    /\ results[1].confidence = results[2].confidence
    /\ LastPick.best = results[1]
    /\ LastPick.best # results[2]

t_QNH_1013 == <<"Q", "N", "H">> \o SP \o <<"1", "0", "1", "3">>
t_FL350 == s_FL \o <<"3", "5", "0">>

\* C5: "qnh one zero one three maintain fl 350" gives a CODE output that
\* contains "QNH 1013" and "FL350" and a SPOKEN output that contains "qnh"
\* and "flight level".
C5_QnhScenario ==
    (pc = "done" /\ text = SCENARIO_QNH)
    => /\ mode = "CODE" => Contains(result, t_QNH_1013) /\ Contains(result, t_FL350)
       /\ mode = "SPOKEN" => Contains(result, s_qnh) /\ Contains(result, s_flight_level)

t_TWY_M6 == <<"T", "W", "Y">> \o SP \o <<"M", "6">>
t_RWY_34L == s_RWY \o SP \o <<"3", "4", "L">>
t_taxiway_mike_six == s_taxiway \o SP \o <<"m", "i", "k", "e">> \o SP \o s_six
t_runway_three_four_left ==
    s_runway \o SP \o s_three \o SP \o s_four \o SP \o s_left

\* C6: "taxi via mike six to runway 34L" gives a CODE output that contains
\* "TWY M6" and "RWY 34L" and a SPOKEN output that contains
\* "taxiway mike six" and "runway three four left".
C6_TaxiScenario ==
    (pc = "done" /\ text = SCENARIO_TAXI)
    => /\ mode = "CODE" => Contains(result, t_TWY_M6) /\ Contains(result, t_RWY_34L)
       /\ mode = "SPOKEN" => /\ Contains(result, t_taxiway_mike_six)
                             /\ Contains(result, t_runway_three_four_left)

t_CSN6889 == s_CSN \o <<"6", "8", "8", "9">>
t_FL330 == s_FL \o <<"3", "3", "0">>
t_HDG_270 == <<"H", "D", "G">> \o SP \o <<"2", "7", "0">>
t_118_75 == <<"1", "1", "8", ".", "7", "5">>
t_china_southern == s_china \o SP \o <<"s", "o", "u", "t", "h", "e", "r", "n">>

\* C7: "CSN6889 climb to FL330 turn right heading 270 contact 118.75
\* QNH 1013" gives a CODE output that contains "CSN6889", "FL330",
\* "HDG 270", "118.75" and "QNH 1013", and a SPOKEN output that contains
\* "china southern", "flight level", "heading", "decimal" and "qnh".
C7_FullScenario ==
    (pc = "done" /\ text = SCENARIO_FULL)
    => /\ mode = "CODE" =>
              /\ Contains(result, t_CSN6889)
              /\ Contains(result, t_FL330)
              /\ Contains(result, t_HDG_270)
              /\ Contains(result, t_118_75)
              /\ Contains(result, t_QNH_1013)
       /\ mode = "SPOKEN" =>
              /\ Contains(result, t_china_southern)
              /\ Contains(result, s_flight_level)
              /\ Contains(result, s_heading)
              /\ Contains(result, s_decimal)
              /\ Contains(result, s_qnh)

\* the scenario parsed to the end in SPOKEN mode, the frequency read out
C7_Witness ==
    /\ pc = "done"
    /\ text = SCENARIO_FULL
    /\ mode = "SPOKEN"
    /\ Contains(result, s_decimal)
    /\ \E n \in 1..Len(picks) :
           picks[n].best.tag = "match" /\ picks[n].best.entity.type = "QNH"

\* C8: the CODE form c of an entity that parse emits in CODE mode is a
\* fixed point: parse(c, CODE) = c.
C8_CodeIdempotent ==
    (pc \in {"scan", "done"} /\ mode = "CODE" /\ Len(picks) > 0
        /\ LastPick.best.tag = "match")
    => parse(DEFAULT_FSMS, LastPick.best.entity.code, "CODE")
          = LastPick.best.entity.code

OtherMode(m) == IF m = "CODE" THEN "SPOKEN" ELSE "CODE"

\* C9: when parse recognized at least one entity whose code and spoken
\* forms differ, the output in the other mode differs from the output in
\* this mode.
C9_ModeSensitive ==
    (pc = "done" /\ \E n \in 1..Len(picks) :
                       /\ picks[n].best.tag = "match"
                       /\ picks[n].best.entity.code # picks[n].best.entity.spoken)
    => result # parse(fsms, text, OtherMode(mode))

\* "contact 118.75" parsed to the end, the frequency recognized
C9_Witness ==
    /\ pc = "done"
    /\ text = SCENARIO_MODE
    /\ Len(picks) = 1
    /\ picks[1].best.tag = "match"
    /\ picks[1].best.entity.type = "FREQUENCY"
    /\ picks[1].best.entity.code # picks[1].best.entity.spoken

\* C10: a default matcher called with an index outside [0, len(tokens)),
\* negative ones included, returns no match and does not fault.
C10_OutOfRangeNoMatch ==
    (pc = "ret" /\ ~(0 <= i /\ i < Len(tokens)))
    => results[1] = NoMatch

\* the call of a matcher returned (or raised) at an index inside the list
InRangeCall == pc = "ret" /\ 0 <= i /\ i < Len(tokens)

\* C11: a default matcher called at an index inside the token list does not
\* raise; an access outside the list raises IndexError, so it reads no
\* position outside the list either.
C11_InRangeNoRaise == InRangeCall => results[1].tag # "raise"

\* C12: a match returned at an index i inside the token list has
\* 1 <= step <= len(tokens) - i.
C12_StepInRange ==
    (InRangeCall /\ results[1].tag = "match")
    => /\ 1 <= results[1].step
       /\ results[1].step <= Len(tokens) - i

\* a match of several tokens that ends with the last token of the list
C12_Witness ==
    /\ InRangeCall
    /\ results[1].tag = "match"
    /\ results[1].step >= 3
    /\ results[1].step = Len(tokens) - i

\* C13: the entity of every match of a default matcher has a non-empty
\* code form and a non-empty spoken form.
C13_FormsNonEmpty ==
    (pc = "ret" /\ results[1].tag = "match")
    => /\ Len(results[1].entity.code) > 0
       /\ Len(results[1].entity.spoken) > 0

\* a frequency given as one token, whose spoken form is all made by
\* num_str_to_spoken
C13_Witness ==
    /\ pc = "ret"
    /\ results[1].tag = "match"
    /\ results[1].entity.type = "FREQUENCY"
    /\ results[1].step = 1
    /\ Len(results[1].entity.spoken) > 0

\* the cursor after the n-th loop iteration
CursorAfter(n) == IF n < Len(picks) THEN picks[n + 1].at ELSE i

\* the tokens ts written one after the other with one space between them
RECURSIVE SpaceSeparated(_)
SpaceSeparated(ts) ==
    IF Len(ts) = 0 THEN <<>>
    ELSE IF Len(ts) = 1 THEN ts[1]
    ELSE ts[1] \o <<" ">> \o SpaceSeparated(Tail(ts))

\* C14: at a cursor where no matcher returned a match the driver emits the
\* token at the cursor as it is, in either mode, and advances by 1; when
\* that is so at every cursor, the output is the tokens separated by
\* single spaces.
C14_Passthrough ==
    pc \in {"scan", "done"}
    => /\ Len(out) = Len(picks)
       /\ \A n \in 1..Len(picks) :
              picks[n].best.tag = "none"
              => /\ out[n] = tokens[picks[n].at + 1]
                 /\ CursorAfter(n) = picks[n].at + 1
       /\ (pc = "done" /\ \A n \in 1..Len(picks) : picks[n].best.tag = "none")
          => result = SpaceSeparated(tokens)

\* a text of several tokens none of which starts a construct, parsed to
\* the end
C14_Witness ==
    /\ pc = "done"
    /\ Len(tokens) >= 2
    /\ Len(picks) = Len(tokens)
    /\ \A n \in 1..Len(picks) : picks[n].best.tag = "none"
    /\ result = SpaceSeparated(tokens)

\* every loop iteration moved the cursor forward: by 1 when nothing
\* matched, by max(1, step) when a match was selected; there were at most
\* len(tokens) iterations, and parse is done only with the cursor at the end
C15_Progress ==
    pc \in {"scan", "done"}
    => /\ Len(picks) <= Len(tokens)
       /\ \A n \in 1..Len(picks) :
              /\ CursorAfter(n) > picks[n].at
              /\ picks[n].best.tag = "none" => CursorAfter(n) = picks[n].at + 1
              /\ picks[n].best.tag = "match"
                 => CursorAfter(n) = picks[n].at
                        + (IF picks[n].best.step >= 1 THEN picks[n].best.step ELSE 1)
       /\ pc = "done" => i >= Len(tokens)

\* C15: parse terminates for every text and every list of matchers: the
\* cursor strictly increases in each loop iteration, also when the selected
\* match reports a step of 0 or less, and the scan is done after at most
\* len(tokens) iterations.
C15_Terminates == []C15_Progress /\ ((pc = "scan") ~> (pc = "done"))

\* a parse that came to its end after it selected a match whose step is
\* not positive
C15_Witness ==
    /\ pc = "done"
    /\ \E n \in 1..Len(picks) :
           picks[n].best.tag = "match" /\ picks[n].best.step <= 0

\* the number of consecutive digit tokens (a digit character or a number
\* word) from the 0-based position k on
RECURSIVE DigitRun(_, _)
DigitRun(ts, k) ==
    IF k < Len(ts) /\ token_to_digit(ts[k + 1]) # None
    THEN 1 + DigitRun(ts, k + 1)
    ELSE 0

\* 'qnh' at the 0-based position k, followed by exactly n digit tokens
QnhWithDigits(ts, k, n) ==
    /\ 0 <= k /\ k < Len(ts)
    /\ lower(ts[k + 1]) = s_qnh
    /\ DigitRun(ts, k + 1) = n

\* C16: 'qnh' followed by only three digit tokens is not matched: parse
\* with the default matchers emits 'qnh' and the three tokens unchanged.
C16_ShortQnhPassthrough ==
    pc = "done"
    => \A k \in 0..(Len(tokens) - 1) :
           QnhWithDigits(tokens, k, 3)
           => \A j \in 0..3 :
                  \E n \in 1..Len(picks) :
                      /\ picks[n].at = k + j
                      /\ picks[n].best.tag = "none"
                      /\ out[n] = tokens[k + j + 1]

\* C17: QNHFSM.match returns no match when three digit tokens or five
\* digit tokens follow the 'qnh' prefix.
C17_QnhExactlyFour ==
    (/\ InRangeCall
     /\ fsms[1].kind = "QNHFSM"
     /\ \/ QnhWithDigits(tokens, i, 3)
        \/ QnhWithDigits(tokens, i, 5))
    => results[1].tag # "match"

\* the token at the 0-based position k is two digits and nothing more, and
\* the token before it is not runway or rwy
BareTwoDigit(ts, k) ==
    /\ 0 <= k /\ k < Len(ts)
    /\ Len(ts[k + 1]) = 2
    /\ IsDigit(ts[k + 1][1]) /\ IsDigit(ts[k + 1][2])
    /\ k >= 1 => lower(ts[k]) \notin {s_runway, <<"r", "w", "y">>}

\* the n-th loop iteration selected a runway that covers position k
RunwayPickOver(n, k) ==
    /\ picks[n].best.tag = "match"
    /\ picks[n].best.entity.type = "RUNWAY"
    /\ picks[n].at <= k
    /\ k < picks[n].at + picks[n].best.step

\* C18: a bare two-digit token without a runway/rwy prefix before it is
\* never a runway: RunwayFSM.match returns no match at its index, and no
\* runway that parse emits covers it.
C18_BareNumberNotRunway ==
    pc \in {"scan", "done"}
    => \A k \in 0..(Len(tokens) - 1) :
           BareTwoDigit(tokens, k)
           => /\ RunwayFSM(tokens, k) = NoMatch
              /\ \A n \in 1..Len(picks) : ~RunwayPickOver(n, k)

\* a parsed text with a bare two-digit token after another token, the
\* number emitted as it is
C18_Witness ==
    /\ pc = "done"
    /\ \E k \in 1..(Len(tokens) - 1) :
           /\ BareTwoDigit(tokens, k)
           /\ \E n \in 1..Len(picks) :
                  /\ picks[n].at = k
                  /\ picks[n].best.tag = "none"
                  /\ out[n] = tokens[k + 1]

\* C19: TaxiwayFSM.match returns a match only when the token at the index
\* is taxiway, twy or tw and another token follows it; a code or a
\* phonetic word without the prefix does not match.
C19_TaxiwayNeedsPrefix ==
    (InRangeCall /\ fsms[1].kind = "TaxiwayFSM" /\ results[1].tag = "match")
    => /\ lower(tokens[i + 1]) \in {s_taxiway, <<"t", "w", "y">>, <<"t", "w">>}
       /\ i + 1 < Len(tokens)

\* a taxiway matched after its prefix, the prefix not being the first token
C19_Witness ==
    /\ InRangeCall
    /\ fsms[1].kind = "TaxiwayFSM"
    /\ results[1].tag = "match"
    /\ results[1].entity.type = "TAXIWAY"
    /\ lower(tokens[i + 1]) = s_taxiway
    /\ results[1].step >= 2

\* C20: a flight level that FlightLevelFSM.match returns has at least two
\* digits: the code form is FL followed by two digits or more.
C20_LevelTwoDigits ==
    (InRangeCall /\ fsms[1].kind = "FlightLevelFSM" /\ results[1].tag = "match")
    => Len(results[1].entity.code) >= Len(s_FL) + 2

\* a word made of letters and digits only, with at least one of each
IsMixedWord(w) ==
    /\ \A k \in 1..Len(w) : IsAlpha(w[k]) \/ IsDigit(w[k])
    /\ \E k \in 1..Len(w) : IsAlpha(w[k])
    /\ \E k \in 1..Len(w) : IsDigit(w[k])

\* C21: a whitespace-delimited word of the normalized text that mixes
\* letters and digits is one token of tokenize(normalize(text)), in lower
\* or in its own case ('csn6889', 'fl330', '34L').
C21_MixedWordOneToken ==
    pc \in {"scan", "done"}
    => LET words == split(normalize(text))
       IN  \A n \in 1..Len(words) :
               IsMixedWord(words[n])
               => \E k \in 1..Len(tokens) : lower(tokens[k]) = lower(words[n])

\* C22: HeadingFSM.match on heading/hdg followed by two or three digit
\* tokens (digit words or single literal digits) returns the code 'HDG '
\* + the collected digits padded to three, with step 1 + the number of
\* digit tokens.
C22_HeadingDigitTokens ==
    (/\ InRangeCall
     /\ fsms[1].kind = "HeadingFSM"
     /\ lower(tokens[i + 1]) \in {s_heading, <<"h", "d", "g">>}
     /\ DigitRun(tokens, i + 1) \in {2, 3}
     /\ results[1].tag # "raise")
    => /\ results[1].tag = "match"
       /\ results[1].step = 1 + DigitRun(tokens, i + 1)
       /\ results[1].entity.code
              = <<"H", "D", "G">> \o SP
                \o zfill([k \in 1..DigitRun(tokens, i + 1) |->
                              token_to_digit(tokens[i + 1 + k])], 3)

\* s ends with a space followed by tail, and has something before them
EndsWithWord(s, tail) ==
    /\ Len(s) > Len(tail) + 1
    /\ s[Len(s) - Len(tail)] = " "
    /\ SubSeq(s, Len(s) - Len(tail) + 1, Len(s)) = tail

\* C23: the code form of a callsign is the 3-letter code followed by the
\* digits, and its spoken form is the airline name followed by every
\* digit of the flight number read as its English word.
C23_CallsignSpokenWords ==
    (InRangeCall /\ fsms[1].kind = "CallsignFSM" /\ results[1].tag = "match")
    => LET code == results[1].entity.code
           digits == SubSeq(code, 4, Len(code))
       IN  /\ Len(code) > 3
           /\ \A k \in 1..3 : code[k] \in Upper
           /\ \A k \in 1..Len(digits) : IsDigit(digits[k])
           /\ EndsWithWord(results[1].entity.spoken, digits_to_spoken(digits))

\* C24: two parse calls that share the Parser, the tokenizer, the matchers
\* and the lookup tables, interleaved between matcher invocations, each
\* return what the call returns when it runs alone.
C24_InterleavedAsAlone ==
    \A c \in Calls :
        pc[c] = "done" => result[c] = parse(fsms, text[c], mode[c])

\* call 1 has returned what it returns alone, with a match selected, and
\* call 2, on another text, stands between two matcher invocations of a
\* round after it selected a match itself
C24_Witness ==
    /\ pc[1] = "done" /\ pc[2] = "scan"
    /\ text[1] # text[2]
    /\ Len(result[1]) > 0 /\ result[1] = parse(fsms, text[1], mode[1])
    /\ 0 < Len(results[2]) /\ Len(results[2]) < Len(fsms)
    /\ \A c \in Calls : \E n \in 1..Len(picks[c]) : picks[c][n].best.tag = "match"

\* C25: a match call of a default matcher leaves the token list as it was,
\* element for element, whether it returns a match, nothing, or raises.
C25_TokensUnchanged == [][tokens' = tokens]_vars

\* a call that recognised several tokens at an index inside the list has
\* returned
C25_Witness ==
    /\ InRangeCall
    /\ fsms[1].kind = "CallsignFSM"
    /\ results[1].tag = "match"
    /\ results[1].step >= 2
    /\ Len(tokens) >= results[1].step

\* C26: in the spoken form of ValueFSM a decimal word after the integer
\* digit tokens must be followed by a fractional digit token: digit tokens
\* + decimal word with no digit token after it is not a match.
C26_FractionAfterDecimal ==
    (/\ InRangeCall
     /\ fsms[1].kind = "ValueFSM"
     /\ DigitRun(tokens, i) >= 1
     /\ i + DigitRun(tokens, i) < Len(tokens)
     /\ lower(tokens[i + DigitRun(tokens, i) + 1]) \in DECIMAL_WORDS
     /\ DigitRun(tokens, i + DigitRun(tokens, i) + 1) = 0)
    => results[1].tag # "match"

\* C27: the confidence of every MatchResult a default matcher returns is
\* the confidence of the entity it wraps.
C27_ConfidenceDuplicated ==
    (pc = "ret" /\ results[1].tag = "match")
    => results[1].confidence = results[1].entity.confidence

\* a runway recognised without its prefix, at the lowest confidence, in
\* the result and in the entity
C27_Witness ==
    /\ pc = "ret"
    /\ fsms[1].kind = "RunwayFSM"
    /\ results[1].tag = "match"
    /\ results[1].confidence = 75
    /\ results[1].entity.confidence = 75

\* the kind of construct the token tok is the keyword of, if any
KeywordKind(tok) ==
    CASE lower(tok) = s_qnh -> "QNH"
      [] lower(tok) \in {s_heading, <<"h", "d", "g">>} -> "HEADING"
      [] lower(tok) \in {s_runway, <<"r", "w", "y">>} -> "RUNWAY"
      [] lower(tok) \in {s_taxiway, <<"t", "w", "y">>, <<"t", "w">>} -> "TAXIWAY"
      [] OTHER -> "NONE"

\* what the matcher of a kind returns at the 0-based position k
KeywordMatcher(kind, ts, k) ==
    CASE kind = "QNH" -> QNHFSM(ts, k)
      [] kind = "HEADING" -> HeadingFSM(ts, k)
      [] kind = "RUNWAY" -> RunwayFSM(ts, k)
      [] kind = "TAXIWAY" -> TaxiwayFSM(ts, k)
      [] OTHER -> NoMatch

\* C28: with the default matcher order, when the token at the cursor is
\* the keyword of the QNH, heading, runway or taxiway matcher and that
\* matcher returns a match there, the entity the driver selects at that
\* cursor is of the matcher's kind, not a callsign made of the keyword.
C28_KeywordBeatsCallsign ==
    pc \in {"scan", "done"}
    => \A n \in 1..Len(picks) :
           LET kind == KeywordKind(tokens[picks[n].at + 1])
           IN  KeywordMatcher(kind, tokens, picks[n].at).tag = "match"
               => /\ picks[n].best.tag = "match"
                  /\ picks[n].best.entity.type = kind

\* the two calls ran to their end on the same text, one in each mode
SameTextBothModes ==
    /\ \A c \in Calls : pc[c] = "done"
    /\ text[1] = text[2]
    /\ mode[1] = "CODE" /\ mode[2] = "SPOKEN"

\* C29: for a fixed text and the default matchers, the cursor positions
\* and the selected matches or passthroughs of a parse are the same in
\* CODE and in SPOKEN mode; a passthrough emits the same token in both, and
\* a match emits its code field in CODE mode and its spoken field in
\* SPOKEN mode.
C29_ModeKeepsSegmentation ==
    SameTextBothModes
    => /\ picks[1] = picks[2]
       /\ \A c \in Calls : Len(out[c]) = Len(picks[c])
       /\ \A n \in 1..Len(picks[1]) :
              IF picks[1][n].best.tag = "match"
              THEN /\ out[1][n] = picks[1][n].best.entity.code
                   /\ out[2][n] = picks[2][n].best.entity.spoken
              ELSE /\ out[1][n] = tokens[1][picks[1][n].at + 1]
                   /\ out[2][n] = out[1][n]

\* the same text parsed in both modes, with a match and a passthrough in
\* it, and outputs that differ
C29_Witness ==
    /\ SameTextBothModes
    /\ \E n \in 1..Len(picks[1]) : picks[1][n].best.tag = "match"
    /\ \E n \in 1..Len(picks[1]) : picks[1][n].best.tag = "none"
    /\ result[1] # result[2]

\* the number of tokens the n-th loop iteration consumed
SpanLen(n) == IF picks[n].best.tag = "match" THEN picks[n].best.step ELSE 1

\* the 0-based token position k lies in the span of the n-th iteration
InSpan(k, n) == picks[n].at <= k /\ k < picks[n].at + SpanLen(n)

\* C30: with the default matchers the spans consumed during a parse
\* partition the token list: the first starts at 0, each is at least one
\* token long and the next starts where it ends, so the matchers are
\* queried at span starts only; the cursor never passes len(tokens) and is
\* len(tokens) when the loop has exited, every token position then lies in
\* exactly one span, and there are never more pieces than tokens.
C30_SpansPartition ==
    pc \in {"scan", "done"}
    => /\ Len(picks) > 0 => picks[1].at = 0
       /\ \A n \in 1..Len(picks) :
              /\ SpanLen(n) >= 1
              /\ CursorAfter(n) = picks[n].at + SpanLen(n)
       /\ i <= Len(tokens)
       /\ Len(out) = Len(picks) /\ Len(out) <= Len(tokens)
       /\ pc = "done"
          => /\ i = Len(tokens)
             /\ \A k \in 0..(Len(tokens) - 1) :
                    Cardinality({n \in 1..Len(picks) : InSpan(k, n)}) = 1

\* a finished parse with a span of several tokens, a span of one passed
\* through, and fewer pieces than tokens
C30_Witness ==
    /\ pc = "done"
    /\ i = Len(tokens)
    /\ Len(picks) >= 3
    /\ \E n \in 1..Len(picks) : picks[n].best.tag = "match" /\ SpanLen(n) >= 2
    /\ \E n \in 1..Len(picks) : picks[n].best.tag = "none"
    /\ Len(out) < Len(tokens)
====
